---- MODULE Spec2Model ----
(***************************************************************************)
(* Model of zenml's BaseVMOrchestrator                                     *)
(* (src/zenml/orchestrators/vm_orchestrator/base_vm_orchestrator.py):      *)
(* the stack validator, prepare_pipeline_deployment and the launch / poll  *)
(* / stream-logs loop of prepare_or_run_pipeline, together with the        *)
(* backend (launch_instance, get_instance, get_logs_url, stream_logs) as   *)
(* a nondeterministic environment and a discrete clock.                    *)
(***************************************************************************)
EXTENDS Integers, Sequences, FiniteSets, TLC

\* ------------------------------------------------------------------------
\* Bounds of the model
\* ------------------------------------------------------------------------
\* largest number of get_instance polls in one run
MaxPolls == 3
\* the non-zero duration a backend call may take (the other one is 0)
MaxLatency == 6

\* ------------------------------------------------------------------------
\* Program constants
\* ------------------------------------------------------------------------
STREAM_LOGS_POLLING_INTERVAL_SECS == 10

None == "None"

\* ------------------------------------------------------------------------
\* Stacks
\* ------------------------------------------------------------------------
CONTAINER_REGISTRY == "container_registry"
ComponentTypes == {"artifact_store", "secrets_manager", CONTAINER_REGISTRY}
Names == {"a", "b"}
LocalPaths == {None, "/local/path"}

\* self.config.kubernetes_context, interpolated into the first message
kubernetes_context == "ctx"

\* a stack component: what _validate reads of it
Components ==
    {c \in [type : ComponentTypes, name : Names, flavor : {"flavor"},
            local_path : LocalPaths, is_local : BOOLEAN,
            uri : {"", "localhost:5000", "gcr.io/project"}] :
        IF c.type = CONTAINER_REGISTRY
        THEN c.uri = (IF c.is_local THEN "localhost:5000" ELSE "gcr.io/project")
        ELSE c.is_local = FALSE /\ c.uri = ""}

\* stack.components: a dict keyed by component type, in insertion order
Stacks ==
    UNION {{s \in [1..n -> Components] :
               \A i, j \in 1..n : i # j => s[i].type # s[j].type} :
           n \in 1..Cardinality(ComponentTypes)}

\* stack.container_registry: the registry component, or None
HasRegistry(s) == \E i \in 1..Len(s) : s[i].type = CONTAINER_REGISTRY
RegistryOf(s) == s[CHOOSE i \in 1..Len(s) : s[i].type = CONTAINER_REGISTRY]

\* indexes of the components that advertise a local path
LocalIndexes(s) == {i \in 1..Len(s) : s[i].local_path # None}
FirstLocal(s) == s[CHOOSE i \in LocalIndexes(s) : \A j \in LocalIndexes(s) : i <= j]
LastLocal(s) == s[CHOOSE i \in LocalIndexes(s) : \A j \in LocalIndexes(s) : i >= j]

\* the two failure messages, as the list of the values they interpolate
LocalComponentMessage(c) ==
    <<"local_component", kubernetes_context, c.name, c.type, c.type, c.flavor>>
LocalRegistryMessage(r) ==
    <<"local_registry", r.name, r.uri, r.flavor>>

Result(ok, reason) == [ok |-> ok, reason |-> reason, raised |-> None]
Raised(exc) == [ok |-> FALSE, reason |-> <<>>, raised |-> exc]

\* mutant: the registry check is missing
ValidateNoRegistryCheck(s) ==
    IF ~HasRegistry(s) THEN Raised("AssertionError")
    ELSE IF LocalIndexes(s) # {} THEN Result(FALSE, LocalComponentMessage(FirstLocal(s)))
    ELSE Result(TRUE, <<>>)

\* mutant: the loop over the components does not stop at the first local one
ValidateLastLocal(s) ==
    IF ~HasRegistry(s) THEN Raised("AssertionError")
    ELSE IF LocalIndexes(s) # {} THEN Result(FALSE, LocalComponentMessage(LastLocal(s)))
    ELSE IF RegistryOf(s).is_local THEN Result(FALSE, LocalRegistryMessage(RegistryOf(s)))
    ELSE Result(TRUE, <<>>)

\* mutant: the local-path check is missing
ValidateNoLocalCheck(s) ==
    IF ~HasRegistry(s) THEN Raised("AssertionError")
    ELSE IF RegistryOf(s).is_local THEN Result(FALSE, LocalRegistryMessage(RegistryOf(s)))
    ELSE Result(TRUE, <<>>)

\* mutant: the registry is checked before the components
ValidateRegistryFirst(s) ==
    IF ~HasRegistry(s) THEN Raised("AssertionError")
    ELSE IF RegistryOf(s).is_local THEN Result(FALSE, LocalRegistryMessage(RegistryOf(s)))
    ELSE IF LocalIndexes(s) # {} THEN Result(FALSE, LocalComponentMessage(FirstLocal(s)))
    ELSE Result(TRUE, <<>>)

\* BaseVMOrchestrator.validator._validate
_validate(s) ==
    IF ~HasRegistry(s) THEN Raised("AssertionError")
    ELSE IF LocalIndexes(s) # {} THEN Result(FALSE, LocalComponentMessage(FirstLocal(s)))
    ELSE IF RegistryOf(s).is_local THEN Result(FALSE, LocalRegistryMessage(RegistryOf(s)))
    ELSE Result(TRUE, <<>>)

\* a message mentions a value when it interpolates it
Mentions(reason, x) == \E i \in 1..Len(reason) : reason[i] = x

\* ------------------------------------------------------------------------
\* The run: state
\* ------------------------------------------------------------------------
VARIABLES
    stack,          \* the stack the pipeline runs on
    validation,     \* what _validate returned for the stack
    deployment,     \* the PipelineDeployment: its schedule and its extras
    pc,             \* where the run is
    failure,        \* the exception a failed run ended with: its type and message
    trace,          \* backend calls, sleeps and log lines, in order
    logs_url,       \* the local variable logs_url of prepare_or_run_pipeline
    in_notebook,    \* what Environment.in_notebook() returned: "True", "False"
    interruptedAt,  \* where the run was when KeyboardInterrupt arrived
    vm,             \* the instance's real state
    now,            \* the clock, in seconds
    launchTime,     \* when launch_instance returned
    stopTime,       \* when the instance stopped running
    windows,        \* the log windows asked of stream_logs
    segment,        \* seconds spent in backend calls since the last stream_logs
    slow,           \* some stream_logs call came after more than one interval of them
    polls,          \* number of get_instance calls
    nodes,          \* LineageGraph.nodes
    edges,          \* LineageGraph.edges
    root_step_id,   \* LineageGraph.root_step_id
    steps           \* the steps the graph was given, in order

vars == <<stack, validation, deployment, pc, failure, trace, logs_url, in_notebook,
          interruptedAt, vm, now, launchTime, stopTime, windows, segment,
          slow, polls, nodes, edges, root_step_id, steps>>

ORCHESTRATOR_DOCKER_IMAGE_KEY == "orchestrator_docker_image"
Digests == {"repo@sha256:1", "repo@sha256:2"}
LaunchErrors == {"quota exceeded", "auth"}
LogsUrls == {None, "", "https://logs"}
RUNNING == "RUNNING"
TerminalStates == {"STOPPED", "SUCCEEDED"}
Latencies == {0, MaxLatency}

\* an entry of the trace: the operation, its argument or result, and the
\* number of seconds it was given (0 when it takes none)
Event(op, arg, secs) == [op |-> op, arg |-> arg, secs |-> secs]
Log(line) == Event("log", line, 0)

timing == <<vm, now, launchTime, stopTime, windows, segment, slow, polls>>
lineage == <<nodes, edges, root_step_id, steps>>

\* the stacks of the runs: those of at most two components, named alike (the
\* run reads nothing of the stack; the validator is checked on every stack)
RunStacks == {s \in Stacks : Len(s) <= 2 /\ \A i \in 1..Len(s) : s[i].name = "a"}

Start(stacks, schedules) ==
    /\ stack \in stacks
    /\ validation = Raised("NotCalled")
    /\ deployment \in [schedule : schedules, extra : {None}]
    /\ pc = "NotStarted"
    /\ failure = <<>>
    /\ trace = <<>>
    /\ logs_url = None
    /\ in_notebook = None
    /\ interruptedAt = None
    /\ vm = None
    /\ now = 0
    /\ launchTime = 0
    /\ stopTime = 0
    /\ windows = <<>>
    /\ segment = 0
    /\ slow = FALSE
    /\ polls = 0
    /\ nodes = <<>>
    /\ edges = <<>>
    /\ root_step_id = None
    /\ steps = <<>>

Init == Start(RunStacks, BOOLEAN)

\* every stack, for the validator alone
InitValidator == Start(Stacks, {FALSE})

\* the run ends by raising exc
Raise(exc) == pc' = "Failed" /\ failure' = exc

\* ------------------------------------------------------------------------
\* Validation and preparation
\* ------------------------------------------------------------------------
\* Stack validation: the StackValidator the orchestrator returns, with its
\* required components and its custom validation function
Validate ==
    /\ pc = "NotStarted"
    /\ IF ~HasRegistry(stack)
       THEN Raise(<<"missing_component", CONTAINER_REGISTRY>>) /\ validation' = validation
       ELSE /\ validation' = _validate(stack)
            /\ IF validation'.raised # None
               THEN Raise(<<validation'.raised>>)
               ELSE IF validation'.ok
                    THEN pc' = "Validated" /\ failure' = failure
                    ELSE Raise(validation'.reason)
    /\ UNCHANGED <<lineage, stack, deployment, trace, logs_url, in_notebook,
                   interruptedAt, timing>>

\* PipelineDeployment.add_extra: the value is recorded in the extras of the
\* deployment's pipeline, of which the model keeps the one of the image key
add_extra(d, key, value) ==
    IF key = ORCHESTRATOR_DOCKER_IMAGE_KEY THEN [d EXCEPT !.extra = value] ELSE d

\* BaseVMOrchestrator.prepare_pipeline_deployment
prepare_pipeline_deployment ==
    /\ pc = "Validated"
    /\ \E repo_digest \in Digests :
         /\ trace' = Append(trace, Event("build_and_push_docker_image", repo_digest, 0))
         /\ deployment' = add_extra(deployment, ORCHESTRATOR_DOCKER_IMAGE_KEY, repo_digest)
    /\ pc' = "Prepared"
    /\ UNCHANGED <<lineage, stack, validation, failure, logs_url, in_notebook,
                   interruptedAt, timing>>

\* ------------------------------------------------------------------------
\* prepare_or_run_pipeline
\* ------------------------------------------------------------------------
\* mutant: the schedule warning comes before the notebook check
EnterWarnsFirst ==
    /\ pc = "Prepared"
    /\ \E notebook \in BOOLEAN, names_bound \in BOOLEAN :
         /\ in_notebook' = (IF notebook THEN "True" ELSE "False")
         /\ trace' = (IF deployment.schedule
                      THEN Append(trace, Log("schedule_warning"))
                      ELSE trace)
         /\ IF notebook
            THEN Raise(<<"RuntimeError", "notebook">>)
            ELSE IF deployment.extra = None
                 THEN Raise(<<"KeyError", ORCHESTRATOR_DOCKER_IMAGE_KEY>>)
                 ELSE IF ~names_bound
                      THEN Raise(<<"NameError", "step_name">>)
                      ELSE pc' = "Launching" /\ failure' = failure
    /\ UNCHANGED <<lineage, stack, validation, deployment, logs_url, interruptedAt, timing>>

\* Lines 207-230: the notebook check, the schedule warning, the image name
\* and the entrypoint command and arguments.  The arguments are computed from
\* the names step_name, RUN_NAME_OPTION and run_name, which the function
\* reads from the module's globals: names_bound says whether they are bound
\* there when the call is made (the module itself binds none of them).
Enter ==
    /\ pc = "Prepared"
    /\ \E notebook \in BOOLEAN, names_bound \in BOOLEAN :
         /\ in_notebook' = (IF notebook THEN "True" ELSE "False")
         /\ IF notebook
            THEN Raise(<<"RuntimeError", "notebook">>) /\ trace' = trace
            ELSE /\ trace' = (IF deployment.schedule
                              THEN Append(trace, Log("schedule_warning"))
                              ELSE trace)
                 /\ IF deployment.extra = None
                    THEN Raise(<<"KeyError", ORCHESTRATOR_DOCKER_IMAGE_KEY>>)
                    ELSE IF ~names_bound
                         THEN Raise(<<"NameError", "step_name">>)
                         ELSE pc' = "Launching" /\ failure' = failure
    /\ UNCHANGED <<lineage, stack, validation, deployment, logs_url, interruptedAt, timing>>

\* mutant: the instance id is not logged
LaunchReturnsSilently ==
    /\ pc = "Launching"
    /\ trace' = Append(trace, Event("launch_instance", deployment.extra, 0))
    /\ vm' = RUNNING
    /\ launchTime' = now
    /\ segment' = 0
    /\ pc' = "ResolveLogsUrl"
    /\ UNCHANGED <<lineage, stack, validation, deployment, failure, logs_url, in_notebook,
                   interruptedAt, now, stopTime, windows, slow, polls>>

\* mutant: the instance is launched with a fixed image
LaunchReturnsFixedImage ==
    /\ pc = "Launching"
    /\ trace' = trace \o <<Event("launch_instance", "repo@sha256:1", 0),
                           Log("instance_id")>>
    /\ vm' = RUNNING
    /\ launchTime' = now
    /\ segment' = 0
    /\ pc' = "ResolveLogsUrl"
    /\ UNCHANGED <<lineage, stack, validation, deployment, failure, logs_url, in_notebook,
                   interruptedAt, now, stopTime, windows, slow, polls>>

\* Lines 233-241: launch_instance returns the instance, whose id is logged
LaunchReturns ==
    /\ pc = "Launching"
    /\ trace' = trace \o <<Event("launch_instance", deployment.extra, 0),
                           Log("instance_id")>>
    /\ vm' = RUNNING
    /\ launchTime' = now
    /\ segment' = 0
    /\ pc' = "ResolveLogsUrl"
    /\ UNCHANGED <<lineage, stack, validation, deployment, failure, logs_url, in_notebook,
                   interruptedAt, now, stopTime, windows, slow, polls>>

\* mutant: the error of launch_instance is swallowed and the run goes on
LaunchRaisesSwallowed ==
    /\ pc = "Launching"
    /\ \E message \in LaunchErrors :
         /\ trace' = Append(trace, Event("launch_instance", deployment.extra, 0))
         /\ failure' = <<"LaunchError", message>>
         /\ pc' = "ResolveLogsUrl"
    /\ UNCHANGED <<lineage, stack, validation, deployment, logs_url, in_notebook, interruptedAt, timing>>

\* Line 233: launch_instance raises; nothing catches it
LaunchRaises ==
    /\ pc = "Launching"
    /\ \E message \in LaunchErrors :
         /\ trace' = Append(trace, Event("launch_instance", deployment.extra, 0))
         /\ Raise(<<"LaunchError", message>>)
    /\ UNCHANGED <<lineage, stack, validation, deployment, logs_url, in_notebook, interruptedAt, timing>>

\* `if logs_url:`
Truthy(url) == url \notin {None, ""}

\* mutant: the logs url line is logged whatever get_logs_url returned
ResolveLogsUrlUnconditional ==
    /\ pc = "ResolveLogsUrl"
    /\ \E url \in LogsUrls, d \in Latencies :
         /\ logs_url' = url
         /\ trace' = trace \o <<Event("get_logs_url", url, 0), Log("logs_url")>>
         /\ now' = now + d
         /\ segment' = segment + d
    /\ pc' = "Poll"
    /\ UNCHANGED <<lineage, stack, validation, deployment, failure, in_notebook, interruptedAt,
                   vm, launchTime, stopTime, windows, slow, polls>>

\* Lines 242-244: the logs url is resolved, and logged when there is one
ResolveLogsUrl ==
    /\ pc = "ResolveLogsUrl"
    /\ \E url \in LogsUrls, d \in Latencies :
         /\ logs_url' = url
         /\ trace' = trace \o <<Event("get_logs_url", url, 0)>>
                           \o (IF Truthy(url) THEN <<Log("logs_url")>> ELSE <<>>)
         /\ now' = now + d
         /\ segment' = segment + d
    /\ pc' = "Poll"
    /\ UNCHANGED <<lineage, stack, validation, deployment, failure, in_notebook, interruptedAt,
                   vm, launchTime, stopTime, windows, slow, polls>>

\* mutant: anything but STOPPED counts as running
IsRunningUnlessStopped(status) == status # "STOPPED"

\* BaseVMOrchestrator.is_running, on the status get_instance returned
is_running(status) == status = RUNNING

\* Line 248: the loop condition; get_instance returns the instance's view
PollReturns ==
    /\ pc = "Poll"
    /\ polls < MaxPolls
    /\ \E d \in Latencies :
         /\ now' = now + d
         /\ segment' = segment + d
    /\ trace' = Append(trace, Event("get_instance", vm, 0))
    /\ polls' = polls + 1
    /\ pc' = (IF is_running(vm) THEN "Stream" ELSE "Drain")
    /\ UNCHANGED <<lineage, stack, validation, deployment, failure, logs_url, in_notebook,
                   interruptedAt, vm, launchTime, stopTime, windows, slow>>

\* mutant: the error of get_instance is swallowed and the poll is made again
PollRaisesRetried ==
    /\ pc = "Poll"
    /\ polls < MaxPolls
    /\ trace' = Append(trace, Event("get_instance", "raised", 0))
    /\ polls' = polls + 1
    /\ pc' = "Poll"
    /\ failure' = <<"NotFoundError", "instance">>
    /\ UNCHANGED <<lineage, stack, validation, deployment, logs_url, in_notebook, interruptedAt,
                   vm, now, launchTime, stopTime, windows, segment, slow>>

\* Line 248: get_instance raises; `except KeyboardInterrupt` does not catch it
PollRaises ==
    /\ pc = "Poll"
    /\ polls < MaxPolls
    /\ trace' = Append(trace, Event("get_instance", "raised", 0))
    /\ polls' = polls + 1
    /\ Raise(<<"NotFoundError", "instance">>)
    /\ UNCHANGED <<lineage, stack, validation, deployment, logs_url, in_notebook, interruptedAt,
                   vm, now, launchTime, stopTime, windows, segment, slow>>

\* the numbers of seconds of lines 250, 252 and 254
StreamSeconds == STREAM_LOGS_POLLING_INTERVAL_SECS
SleepSecondsTripled == STREAM_LOGS_POLLING_INTERVAL_SECS * 3
SleepSeconds == STREAM_LOGS_POLLING_INTERVAL_SECS
DrainSecondsSingle == STREAM_LOGS_POLLING_INTERVAL_SECS
DrainSeconds == STREAM_LOGS_POLLING_INTERVAL_SECS * 2

\* stream_logs(seconds_before) called now: the window it asks for
Window(seconds_before) == [lo |-> now - seconds_before, hi |-> now]

\* Lines 249-251: the logs of the last interval are streamed
StreamReturns ==
    /\ pc = "Stream"
    /\ trace' = Append(trace, Event("stream_logs", "returned", StreamSeconds))
    /\ windows' = Append(windows, Window(StreamSeconds))
    /\ slow' = (slow \/ segment > STREAM_LOGS_POLLING_INTERVAL_SECS)
    /\ \E d \in Latencies :
         /\ now' = now + d
         /\ segment' = d
    /\ pc' = "Sleep"
    /\ UNCHANGED <<lineage, stack, validation, deployment, failure, logs_url, in_notebook,
                   interruptedAt, vm, launchTime, stopTime, polls>>

\* Lines 249-251: stream_logs raises
StreamRaises ==
    /\ pc = "Stream"
    /\ trace' = Append(trace, Event("stream_logs", "raised", StreamSeconds))
    /\ Raise(<<"BackendError", "stream_logs">>)
    /\ UNCHANGED <<lineage, stack, validation, deployment, logs_url, in_notebook, interruptedAt, timing>>

\* mutant: after the sleep the loop streams again without polling
SleepThenStream ==
    /\ pc = "Sleep"
    /\ trace' = Append(trace, Event("sleep", "returned", SleepSeconds))
    /\ now' = now + SleepSeconds
    /\ pc' = "Stream"
    /\ UNCHANGED <<lineage, stack, validation, deployment, failure, logs_url, in_notebook,
                   interruptedAt, vm, launchTime, stopTime, windows, segment,
                   slow, polls>>

\* Line 252: time.sleep
Sleep ==
    /\ pc = "Sleep"
    /\ trace' = Append(trace, Event("sleep", "returned", SleepSeconds))
    /\ now' = now + SleepSeconds
    /\ pc' = "Poll"
    /\ UNCHANGED <<lineage, stack, validation, deployment, failure, logs_url, in_notebook,
                   interruptedAt, vm, launchTime, stopTime, windows, segment,
                   slow, polls>>

\* Lines 253-255: after the loop, the logs of the last two intervals
DrainReturns ==
    /\ pc = "Drain"
    /\ trace' = Append(trace, Event("stream_logs", "returned", DrainSeconds))
    /\ windows' = Append(windows, Window(DrainSeconds))
    /\ slow' = (slow \/ segment > STREAM_LOGS_POLLING_INTERVAL_SECS)
    /\ pc' = "Done"
    /\ UNCHANGED <<lineage, stack, validation, deployment, failure, logs_url, in_notebook,
                   interruptedAt, vm, now, launchTime, stopTime, segment, polls>>

\* Lines 253-255: the last stream_logs raises
DrainRaises ==
    /\ pc = "Drain"
    /\ trace' = Append(trace, Event("stream_logs", "raised", DrainSeconds))
    /\ Raise(<<"BackendError", "stream_logs">>)
    /\ UNCHANGED <<lineage, stack, validation, deployment, logs_url, in_notebook, interruptedAt, timing>>

\* where the run is inside the try block of lines 246-255
InTry == {"Poll", "Stream", "Sleep", "Drain"}
\* where it is inside the while loop
InLoop == {"Poll", "Stream", "Sleep"}

\* mutant: the handler does not give the logs url
HandlerWithoutUrl(url) == <<Log("interrupt")>>

\* Lines 256-259: what the handler of KeyboardInterrupt logs
ExceptKeyboardInterrupt(url) ==
    <<Log("interrupt")>> \o (IF Truthy(url) THEN <<Log("view_logs")>> ELSE <<>>)

\* mutant: the handler lets the interrupt through
InterruptInTryPropagates ==
    /\ pc \in InTry
    /\ interruptedAt' = pc
    /\ trace' = trace \o ExceptKeyboardInterrupt(logs_url)
    /\ Raise(<<"KeyboardInterrupt", "">>)
    /\ UNCHANGED <<lineage, stack, validation, deployment, logs_url, in_notebook, timing>>

\* mutant: the statement in progress is completed before the handler runs
InterruptInTryAfterCall ==
    /\ pc \in InTry
    /\ interruptedAt' = pc
    /\ trace' = trace
          \o <<CASE pc = "Poll" -> Event("get_instance", vm, 0)
                 [] pc = "Stream" -> Event("stream_logs", "returned", StreamSeconds)
                 [] pc = "Sleep" -> Event("sleep", "returned", SleepSeconds)
                 [] pc = "Drain" -> Event("stream_logs", "returned", DrainSeconds)>>
          \o ExceptKeyboardInterrupt(logs_url)
    /\ pc' = "Done"
    /\ UNCHANGED <<lineage, stack, validation, deployment, failure, logs_url, in_notebook, timing>>

\* Lines 246-259: KeyboardInterrupt raised inside the try block, whatever the
\* statement it interrupts; the handler logs and the function returns
InterruptInTry ==
    /\ pc \in InTry
    /\ interruptedAt' = pc
    /\ trace' = trace \o ExceptKeyboardInterrupt(logs_url)
    /\ pc' = "Done"
    /\ UNCHANGED <<lineage, stack, validation, deployment, failure, logs_url, in_notebook, timing>>

\* Lines 232-244: KeyboardInterrupt raised before the try block goes to the caller
InterruptBeforeTry ==
    /\ pc \in {"Launching", "ResolveLogsUrl"}
    /\ interruptedAt' = pc
    /\ Raise(<<"KeyboardInterrupt", "">>)
    /\ UNCHANGED <<lineage, stack, validation, deployment, trace, logs_url, in_notebook, timing>>

\* the backend: the instance stops running
InstanceStops ==
    /\ vm = RUNNING
    /\ pc \in {"ResolveLogsUrl"} \cup InLoop
    /\ vm' \in TerminalStates
    /\ stopTime' = now
    /\ UNCHANGED <<lineage, stack, validation, deployment, pc, failure, trace, logs_url, in_notebook,
                   interruptedAt, now, launchTime, windows, segment, slow, polls>>

Next ==
    \/ Validate
    \/ prepare_pipeline_deployment
    \/ Enter
    \/ LaunchReturns
    \/ LaunchRaises
    \/ ResolveLogsUrl
    \/ PollReturns
    \/ PollRaises
    \/ StreamReturns
    \/ StreamRaises
    \/ Sleep
    \/ DrainReturns
    \/ DrainRaises
    \/ InterruptInTry
    \/ InterruptBeforeTry
    \/ InstanceStops

Spec == Init /\ [][Next]_vars

\* The run of a stack of one component, in which the thread of the run keeps
\* going and every call it makes comes back (by returning or by raising);
\* the interrupt and the moment the instance stops remain free
LiveStacks == {s \in RunStacks : Len(s) = 1}
InitLive == Start(LiveStacks, {FALSE})
Supervisor ==
    \/ Validate
    \/ prepare_pipeline_deployment
    \/ Enter
    \/ LaunchReturns
    \/ LaunchRaises
    \/ ResolveLogsUrl
    \/ PollReturns
    \/ PollRaises
    \/ StreamReturns
    \/ StreamRaises
    \/ Sleep
    \/ DrainReturns
    \/ DrainRaises
SpecLive == InitLive /\ [][Next]_vars /\ WF_vars(Supervisor)

\* the validator applied to every stack
NextValidator == Validate
SpecValidator == InitValidator /\ [][NextValidator]_vars

\* ------------------------------------------------------------------------
\* The lineage graph of a run
\* ------------------------------------------------------------------------
ARTIFACT_PREFIX == "artifact_"
STEP_PREFIX == "step_"
str(n) == ToString(n)

\* number of steps one graph is given
MaxSteps == 2

StepIds == {1, 2}
ArtifactIds == {1, 2}

\* an ArtifactView: its id and the step that produced it, which for a cached
\* artifact is not the step that has it as output
ArtifactViews == [id : ArtifactIds, producer_step : [id : StepIds]]

\* the values of a dict of artifacts, in the order of the dict
ArtifactLists(n) ==
    {l \in UNION {[1..k -> ArtifactViews] : k \in 0..n} :
        \A i, j \in 1..Len(l) : i # j => l[i].id # l[j].id}

\* a StepView: up to two outputs and one input, no artifact being both
StepViews ==
    {s \in [id : StepIds, outputs : ArtifactLists(2), inputs : ArtifactLists(1)] :
        \A i \in 1..Len(s.outputs), j \in 1..Len(s.inputs) :
            s.outputs[i].id # s.inputs[j].id}

StepNode(id, execution_id) ==
    [class |-> "StepNode", id |-> id, execution_id |-> execution_id]
ArtifactNode(id, execution_id, producer_step_id) ==
    [class |-> "ArtifactNode", id |-> id, execution_id |-> execution_id,
     producer_step_id |-> producer_step_id]
Edge(id, source, target) == [id |-> id, source |-> source, target |-> target]

\* the graph as one value
LineageGraph == [nodes |-> nodes, edges |-> edges, root_step_id |-> root_step_id]

\* lines 65-81: one ArtifactNode for every output
OutputNodes(step) ==
    [i \in 1..Len(step.outputs) |->
        ArtifactNode(ARTIFACT_PREFIX \o str(step.outputs[i].id),
                     step.outputs[i].id,
                     step.outputs[i].producer_step.id)]

\* lines 82-92: one Edge from the step to every output
OutputEdges(step) ==
    [i \in 1..Len(step.outputs) |->
        Edge(STEP_PREFIX \o str(step.id) \o "_" \o ARTIFACT_PREFIX
                 \o str(step.outputs[i].id),
             STEP_PREFIX \o str(step.id),
             ARTIFACT_PREFIX \o str(step.outputs[i].id))]

\* lines 94-105: one Edge from every input to the step
InputEdges(step) ==
    [i \in 1..Len(step.inputs) |->
        Edge(STEP_PREFIX \o str(step.id) \o "_" \o ARTIFACT_PREFIX
                 \o str(step.inputs[i].id),
             ARTIFACT_PREFIX \o str(step.inputs[i].id),
             STEP_PREFIX \o str(step.id))]

\* lines 42-47
ExecutionId(step) ==
    IF step.outputs # <<>> THEN step.outputs[1].producer_step.id ELSE step.id

\* mutant: root_step_id is set by every call
StepNodesAndEdgesRootOverwritten(g, step) ==
    LET step_id == STEP_PREFIX \o str(step.id) IN
    [nodes |-> Append(g.nodes, StepNode(step_id, ExecutionId(step)))
                   \o OutputNodes(step),
     edges |-> g.edges \o OutputEdges(step) \o InputEdges(step),
     root_step_id |-> step_id]

\* the graph g after generate_step_nodes_and_edges(step)
StepNodesAndEdges(g, step) ==
    LET step_id == STEP_PREFIX \o str(step.id) IN
    [nodes |-> Append(g.nodes, StepNode(step_id, ExecutionId(step)))
                   \o OutputNodes(step),
     edges |-> g.edges \o OutputEdges(step) \o InputEdges(step),
     root_step_id |-> IF g.root_step_id = None THEN step_id ELSE g.root_step_id]

\* the graph g after generate_run_nodes_and_edges of a run of these steps
RECURSIVE RunNodesAndEdges(_, _)
RunNodesAndEdges(g, run_steps) ==
    IF run_steps = <<>>
    THEN g
    ELSE RunNodesAndEdges(StepNodesAndEdges(g, Head(run_steps)), Tail(run_steps))

Becomes(g) ==
    /\ nodes' = g.nodes
    /\ edges' = g.edges
    /\ root_step_id' = g.root_step_id

generate_step_nodes_and_edges ==
    /\ Len(steps) < MaxSteps
    /\ \E step \in StepViews :
         /\ Becomes(StepNodesAndEdges(LineageGraph, step))
         /\ steps' = Append(steps, step)
    /\ UNCHANGED <<stack, validation, deployment, pc, failure, trace, logs_url,
                   in_notebook, interruptedAt, timing>>

generate_run_nodes_and_edges ==
    /\ \E k \in 0..(MaxSteps - Len(steps)) :
         \E run_steps \in [1..k -> StepViews] :
            /\ Becomes(RunNodesAndEdges(LineageGraph, run_steps))
            /\ steps' = steps \o run_steps
    /\ UNCHANGED <<stack, validation, deployment, pc, failure, trace, logs_url,
                   in_notebook, interruptedAt, timing>>

\* a graph as constructed, beside a run that has not started
InitLineage == Start({CHOOSE s \in RunStacks : TRUE}, {FALSE})

NextLineage ==
    \/ generate_step_nodes_and_edges
    \/ generate_run_nodes_and_edges

SpecLineage == InitLineage /\ [][NextLineage]_vars

TypeOK ==
    /\ pc \in {"NotStarted", "Validated", "Prepared", "Launching",
               "ResolveLogsUrl", "Poll", "Stream", "Sleep", "Drain", "Done", "Failed"}
    /\ polls \in 0..MaxPolls

\* ------------------------------------------------------------------------
\* The validator (checked under SpecValidator)
\* ------------------------------------------------------------------------
\* _validate returned for the stack
Validated == validation.raised = None
NoLocalComponent == \A i \in 1..Len(stack) : stack[i].local_path = None

C6_LocalRegistryRejected ==
    (Validated /\ NoLocalComponent /\ RegistryOf(stack).is_local) =>
        /\ ~validation.ok
        /\ Mentions(validation.reason, RegistryOf(stack).name)
        /\ Mentions(validation.reason, RegistryOf(stack).uri)

\* a stack of three components, none local, with a local registry, has been
\* validated
C6_Witness ==
    /\ Validated
    /\ Len(stack) = 3
    /\ NoLocalComponent
    /\ RegistryOf(stack).is_local

\* C7: _validate returns ok=True, with an empty reason, for the stacks that
\* have a container registry, no component with a local path and a non-local
\* registry, and for no other stack.
C7_AcceptedIffRemote ==
    /\ pc # "NotStarted" =>
         (validation.ok <=>
            (HasRegistry(stack) /\ NoLocalComponent /\ ~RegistryOf(stack).is_local))
    /\ validation.ok => (Validated /\ validation.reason = <<>>)

\* a stack of three components has been accepted
C7_Witness == validation.ok /\ Len(stack) = 3

\* ------------------------------------------------------------------------
\* The run (checked under Spec)
\* ------------------------------------------------------------------------
\* positions of the trace where op was called
Idx(op) == {i \in 1..Len(trace) : trace[i].op = op}
\* positions of the line `line` in the log
Logged(line) == {i \in Idx("log") : trace[i].arg = line}
\* polls that saw the instance running
RunningPolls == {i \in Idx("get_instance") : trace[i].arg = RUNNING}
\* calls of stream_logs for the last secs seconds
Streams(secs) == {i \in Idx("stream_logs") : trace[i].secs = secs}
\* the run returned, with no interrupt and no error
NormalEnd == pc = "Done" /\ interruptedAt = None

\* C1: in a run that launches and meets no interrupt and no backend error,
\* with n polls that see the instance running and then one that does not,
\* get_instance is called n+1 times, stream_logs n times for the last
\* interval and then once, as the last call, for twice the interval; and no
\* poll follows one that saw the instance not running.
C1_PollsAndStreams ==
    /\ \A i \in Idx("get_instance") :
         trace[i].arg # RUNNING => \A j \in Idx("get_instance") : j <= i
    /\ NormalEnd =>
         LET n == Cardinality(RunningPolls) IN
         /\ Cardinality(Idx("get_instance")) = n + 1
         /\ Cardinality(Idx("stream_logs")) = n + 1
         /\ Cardinality(Streams(STREAM_LOGS_POLLING_INTERVAL_SECS)) = n
         /\ Streams(2 * STREAM_LOGS_POLLING_INTERVAL_SECS) = {Len(trace)}

\* Running, Running, then not running: two streams and the drain
C1_Witness == NormalEnd /\ Cardinality(RunningPolls) = 2

\* the position of the interrupt notice in the trace
InterruptLine == CHOOSE i \in Logged("interrupt") : TRUE

\* C2, as stated: after a KeyboardInterrupt during the sleep of the loop, no
\* further get_instance call is made, the drain call stream_logs(2*W) is
\* still made, and the logs url, if one was resolved, is reported.
C2_DrainAfterInterrupt ==
    interruptedAt = "Sleep" =>
        /\ \A i \in Idx("get_instance") : i < InterruptLine
        /\ Streams(2 * STREAM_LOGS_POLLING_INTERVAL_SECS) # {}
        /\ Truthy(logs_url) => Logged("view_logs") # {}

\* C2, amended: after a KeyboardInterrupt during the sleep of the loop the
\* function returns at once: the in-loop stream_logs(W) before the sleep is
\* the last backend call (no further get_instance, no drain call), and after
\* it only the interrupt notice is logged, followed by the logs url line
\* exactly when a non-empty logs url was resolved.
C2_NoDrainAfterInterrupt ==
    interruptedAt = "Sleep" =>
        /\ pc = "Done"
        /\ Streams(2 * STREAM_LOGS_POLLING_INTERVAL_SECS) = {}
        /\ InterruptLine > 1
        /\ trace[InterruptLine - 1].op = "stream_logs"
        /\ trace[InterruptLine - 1].secs = STREAM_LOGS_POLLING_INTERVAL_SECS
        /\ IF logs_url \in {None, ""}
           THEN Len(trace) = InterruptLine
           ELSE /\ Len(trace) = InterruptLine + 1
                /\ trace[Len(trace)] = Log("view_logs")

\* the interrupt arrives in the sleep after the second poll, with a logs url
C2_Witness ==
    /\ interruptedAt = "Sleep"
    /\ Cardinality(Idx("get_instance")) = 2
    /\ logs_url = "https://logs"

\* C3: when launch_instance raises, the run fails with that error and its
\* message, launch_instance is not called again, and get_instance,
\* get_logs_url and stream_logs are never called.
C3_LaunchErrorIsFatal ==
    /\ Cardinality(Idx("launch_instance")) <= 1
    /\ (failure # <<>> /\ failure[1] = "LaunchError") =>
         /\ pc = "Failed"
         /\ failure[2] \in LaunchErrors
         /\ Idx("get_instance") = {}
         /\ Idx("get_logs_url") = {}
         /\ Idx("stream_logs") = {}

\* launch_instance raised "quota exceeded"
C3_Witness ==
    /\ pc = "Failed"
    /\ failure = <<"LaunchError", "quota exceeded">>
    /\ Idx("launch_instance") # {}

\* C4: launch_instance is called only for a stack the validator accepted,
\* one with a registry, no local component and a non-local registry; when
\* the validator rejects the stack the run fails with the validator's reason
\* and launch_instance is never called.
C4_NoLaunchWithoutValidation ==
    /\ Idx("launch_instance") # {} =>
         /\ validation.ok
         /\ HasRegistry(stack)
         /\ NoLocalComponent
         /\ ~RegistryOf(stack).is_local
    /\ (pc # "NotStarted" /\ ~validation.ok) =>
         /\ pc = "Failed"
         /\ trace = <<>>
         /\ Validated => failure = validation.reason

\* an instance has been launched for a stack of two components
C4_Witness == Idx("launch_instance") # {} /\ Len(stack) = 2 /\ vm = RUNNING

\* the instant t is in a window asked of stream_logs
Covered(t) == \E i \in 1..Len(windows) : windows[i].lo <= t /\ t <= windows[i].hi
\* the running interval has a stretch longer than w that no window covers
GapExceeding(w) ==
    \E a \in launchTime..stopTime :
        /\ a + w + 1 <= stopTime
        /\ \A t \in (a + 1)..(a + w) : ~Covered(t)

\* C8, as stated: the windows of the in-loop calls and of the drain call
\* cover the interval from the launch to the instant the instance stops
\* running, with no gap longer than the polling interval.
C8_NoGapExceedingInterval ==
    NormalEnd => ~GapExceeding(STREAM_LOGS_POLLING_INTERVAL_SECS)

\* C8, amended: the same, provided the backend calls made between the launch
\* and the first stream_logs call, and between two consecutive stream_logs
\* calls, never take more than one polling interval in total.
C8_NoGapUnlessSlowBackend ==
    (NormalEnd /\ ~slow) => ~GapExceeding(STREAM_LOGS_POLLING_INTERVAL_SECS)

\* a run of three windows, with backend calls that took time but no more
\* than one interval
C8_Witness ==
    /\ NormalEnd
    /\ ~slow
    /\ Len(windows) = 3
    /\ windows[2].lo > windows[1].hi

\* C9: with a schedule, outside a notebook and without interrupt, the run
\* logs the warning and then calls launch_instance; without a schedule no
\* warning is logged.
C9_ScheduleIgnoredAndLaunched ==
    /\ (pc \in {"Done", "Failed"} /\ in_notebook = "False"
            /\ interruptedAt = None /\ deployment.schedule) =>
         \E w \in Logged("schedule_warning"), l \in Idx("launch_instance") : w < l
    /\ ~deployment.schedule => Logged("schedule_warning") = {}

\* C10, as stated: a KeyboardInterrupt in the polling loop does not fail the
\* run: the function returns normally, after the drain call.
C10_InterruptDrains ==
    interruptedAt \in InLoop =>
        /\ pc = "Done"
        /\ failure = <<>>
        /\ \E i \in Streams(2 * STREAM_LOGS_POLLING_INTERVAL_SECS) : i > InterruptLine

\* C10, amended: a KeyboardInterrupt in the polling loop does not fail the
\* run: the function returns normally, without the drain call and with no
\* backend call after the interrupt.
C10_InterruptReturnsWithoutDrain ==
    interruptedAt \in InLoop =>
        /\ pc = "Done"
        /\ failure = <<>>
        /\ Streams(2 * STREAM_LOGS_POLLING_INTERVAL_SECS) = {}
        /\ \A i \in 1..Len(trace) : i > InterruptLine => trace[i].op = "log"

\* the interrupt arrives while the loop is about to stream, without logs url
C10_Witness ==
    /\ interruptedAt = "Stream"
    /\ pc = "Done"
    /\ logs_url = None

\* backend calls that raised
RaisedCalls ==
    {i \in 1..Len(trace) :
        trace[i].op \in {"get_instance", "stream_logs"} /\ trace[i].arg = "raised"}
\* those of the polling loop: get_instance and the in-loop stream_logs
RaisedInLoop ==
    {i \in RaisedCalls :
        trace[i].op = "stream_logs" => trace[i].secs = STREAM_LOGS_POLLING_INTERVAL_SECS}

\* C11: an error of get_instance or stream_logs fails the run, and the call
\* that raised is the last thing the run does: no further get_instance or
\* stream_logs call, no retry and no drain call.
C11_BackendErrorIsFatal ==
    \A i \in RaisedCalls :
        /\ pc = "Failed"
        /\ failure[1] \in {"NotFoundError", "BackendError"}
        /\ i = Len(trace)

\* the in-loop stream_logs raised after the second poll
C11_Witness ==
    /\ pc = "Failed"
    /\ polls = 2
    /\ Len(trace) \in RaisedInLoop
    /\ trace[Len(trace)].op = "stream_logs"

\* C12, as stated: after a backend error in the polling loop and before the
\* run ends, the instance id and, if there is one, the logs url are logged.
C12_LoggedAfterError ==
    \A i \in RaisedInLoop :
        /\ \E j \in Logged("instance_id") : j > i
        /\ Truthy(logs_url) =>
             \E j \in Logged("logs_url") \cup Logged("view_logs") : j > i

\* the operations of the run; none of them stops or deletes the instance
RunOperations ==
    {"build_and_push_docker_image", "log", "launch_instance", "get_logs_url",
     "get_instance", "stream_logs", "sleep"}

\* C12, amended: a backend error in the polling loop ends the run at once,
\* with nothing logged after it; the instance id and, exactly when a
\* non-empty logs url was resolved, the logs url were logged before the
\* polling began; no call terminates the instance.
C12_LoggedBeforeErrorOnly ==
    \A i \in RaisedInLoop :
        /\ i = Len(trace)
        /\ \E j \in Logged("instance_id") : j < i
        /\ Truthy(logs_url) <=> (\E j \in Logged("logs_url") : j < i)
        /\ Logged("view_logs") = {}
        /\ \A k \in 1..Len(trace) : trace[k].op \in RunOperations

\* get_instance raised in a run whose logs url was resolved
C12_Witness ==
    /\ pc = "Failed"
    /\ failure = <<"NotFoundError", "instance">>
    /\ logs_url = "https://logs"

\* the launch, the polls, the streams and the sleeps of the run, in order
IsLoopCall(e) == e.op \in {"launch_instance", "get_instance", "stream_logs", "sleep"}
LoopCalls == SelectSeq(trace, IsLoopCall)
InLoopStream(e) ==
    e.op = "stream_logs" /\ e.secs = STREAM_LOGS_POLLING_INTERVAL_SECS
IntervalSleep(e) ==
    e.op = "sleep" /\ e.secs = STREAM_LOGS_POLLING_INTERVAL_SECS

\* C13: the loop is sequential.  launch_instance is called at most once and
\* first; a poll comes right after the launch or right after a sleep; an
\* in-loop stream_logs(W) comes right after a poll that saw the instance
\* running, and what follows it is one sleep of W; a sleep comes right after
\* an in-loop stream_logs and what follows it is a poll.  So between two
\* consecutive polls there is exactly one stream_logs(W) and one sleep of W.
C13_PollStreamSleep ==
    LET c == LoopCalls IN
    \A i \in 1..Len(c) :
        /\ c[i].op = "launch_instance" => i = 1
        /\ c[i].op = "get_instance" =>
             /\ i > 1
             /\ c[i - 1].op = "launch_instance" \/ IntervalSleep(c[i - 1])
        /\ c[i].op = "stream_logs" =>
             /\ i > 1
             /\ c[i - 1].op = "get_instance"
             /\ InLoopStream(c[i]) <=> c[i - 1].arg = RUNNING
        /\ (InLoopStream(c[i]) /\ i < Len(c)) => IntervalSleep(c[i + 1])
        /\ c[i].op = "sleep" =>
             /\ IntervalSleep(c[i])
             /\ i > 1
             /\ InLoopStream(c[i - 1])
             /\ i < Len(c) => c[i + 1].op = "get_instance"

\* three polls, with a stream and a sleep between each two of them
C13_Witness ==
    /\ Cardinality(Idx("get_instance")) = 3
    /\ Cardinality(Idx("sleep")) = 2
    /\ Cardinality(Streams(STREAM_LOGS_POLLING_INTERVAL_SECS)) = 2

\* C14, as stated: a KeyboardInterrupt takes effect at the sleep only; the
\* get_instance call, the in-loop stream_logs call or the drain call during
\* which it arrives is completed first.
C14_InterruptOnlyAtSleep ==
    interruptedAt \in InTry =>
        /\ interruptedAt = "Sleep"
        /\ InLoopStream(trace[InterruptLine - 1])

\* C14, amended: a KeyboardInterrupt takes effect wherever in the try block
\* it is raised, and the statement in progress is abandoned: the last entry
\* before the interrupt notice is the one of the statement before it (a poll
\* that saw the instance running when stream_logs is interrupted, a poll that
\* saw it not running when the drain call is, an in-loop stream_logs when
\* the sleep is, the url resolution or a sleep when get_instance is), and
\* the function returns.
C14_InterruptAbandonsStatement ==
    interruptedAt \in InTry =>
        LET prev == trace[InterruptLine - 1] IN
        /\ pc = "Done"
        /\ interruptedAt = "Poll" => prev.op \in {"get_logs_url", "log", "sleep"}
        /\ interruptedAt = "Stream" => prev = Event("get_instance", RUNNING, 0)
        /\ interruptedAt = "Sleep" => InLoopStream(prev) /\ prev.arg = "returned"
        /\ interruptedAt = "Drain" =>
             /\ prev.op = "get_instance"
             /\ prev.arg \in TerminalStates
             /\ Streams(2 * STREAM_LOGS_POLLING_INTERVAL_SECS) = {}

\* the interrupt arrives during the drain call
C14_Witness == interruptedAt = "Drain" /\ pc = "Done"

\* ------------------------------------------------------------------------
\* Termination (checked under SpecLive)
\* ------------------------------------------------------------------------
\* the url has been resolved: the loop has been entered
PollingStarted == Idx("get_logs_url") # {}

\* C15: once the instance has stopped running (it never runs again) and
\* unless a backend call fails or an interrupt arrives, the run comes to
\* return, the drain call being the last thing it did; and as long as every
\* poll has seen the instance running, with no interrupt and no failure, the
\* run stays in the loop.  (The first part is stated for the runs that have a
\* poll left within MaxPolls.)
C15_Termination ==
    /\ (vm \in TerminalStates /\ polls < MaxPolls
            /\ pc \in {"ResolveLogsUrl"} \cup InLoop)
         ~> \/ /\ NormalEnd
               /\ Streams(2 * STREAM_LOGS_POLLING_INTERVAL_SECS) = {Len(trace)}
            \/ failure # <<>>
            \/ interruptedAt # None
    /\ [](  (PollingStarted /\ failure = <<>> /\ interruptedAt = None
                /\ Idx("get_instance") = RunningPolls)
          => pc \in InLoop)

\* the instance succeeded after one poll and the run returned
C15_Witness ==
    /\ NormalEnd
    /\ vm = "SUCCEEDED"
    /\ Cardinality(RunningPolls) = 1
    /\ Len(stack) = 1

\* ------------------------------------------------------------------------
\* The run, continued (checked under Spec)
\* ------------------------------------------------------------------------
\* C16: when launch_instance has returned, the instance id is logged right
\* after it, once; get_logs_url is called at most once, after that line, and
\* exactly once in a run that reaches the loop; the url line follows it
\* exactly when it returned a non-empty url; all of this comes before the
\* first get_instance or stream_logs call; and when get_logs_url returned
\* nothing no url line is ever logged, the interrupt handler's included.
C16_LogOrderAfterLaunch ==
    /\ \A j \in Logged("instance_id") : j > 1 /\ trace[j - 1].op = "launch_instance"
    /\ Cardinality(Logged("instance_id")) <= 1
    /\ Cardinality(Idx("get_logs_url")) <= 1
    /\ Cardinality(Logged("logs_url")) <= 1
    /\ \A u \in Idx("get_logs_url") :
         /\ \E j \in Logged("instance_id") : j < u
         /\ IF Truthy(trace[u].arg)
            THEN Logged("logs_url") = {u + 1}
            ELSE Logged("logs_url") = {} /\ Logged("view_logs") = {}
    /\ Logged("logs_url") \cup Logged("view_logs") # {} => Idx("get_logs_url") # {}
    /\ \A i \in Idx("get_instance") \cup Idx("stream_logs") :
         /\ \E u \in Idx("get_logs_url") : u < i
         /\ \A j \in Logged("instance_id") \cup Logged("logs_url") : j < i
    /\ pc \in InTry \cup {"Done"} =>
         /\ Cardinality(Logged("instance_id")) = 1
         /\ Cardinality(Idx("get_logs_url")) = 1

\* get_logs_url returned an empty url and the run was interrupted in a sleep
C16_Witness ==
    /\ interruptedAt = "Sleep"
    /\ pc = "Done"
    /\ logs_url = ""
    /\ Idx("get_logs_url") # {}

\* ------------------------------------------------------------------------
\* The validator, continued (checked under SpecValidator)
\* ------------------------------------------------------------------------
\* C17: for a stack with both a component with a local path and a local
\* registry, _validate returns ok=False with the message about the local
\* component, naming the first component with a local path and its type,
\* and not the message about the registry.
C17_LocalComponentBeforeRegistry ==
    (Validated /\ ~NoLocalComponent /\ RegistryOf(stack).is_local) =>
        /\ ~validation.ok
        /\ validation.reason[1] = "local_component"
        /\ ~Mentions(validation.reason, RegistryOf(stack).uri)
        /\ \E i \in 1..Len(stack) :
             /\ stack[i].local_path # None
             /\ \A j \in 1..(i - 1) : stack[j].local_path = None
             /\ validation.reason[3] = stack[i].name
             /\ validation.reason[4] = stack[i].type

\* a local registry listed first, without local path, then a component with
\* a local path and another name
C17_Witness ==
    /\ Validated
    /\ Len(stack) >= 2
    /\ stack[1].type = CONTAINER_REGISTRY
    /\ stack[1].is_local
    /\ stack[1].local_path = None
    /\ stack[2].local_path # None
    /\ stack[2].name # stack[1].name

\* ------------------------------------------------------------------------
\* The run, continued (checked under Spec)
\* ------------------------------------------------------------------------
Builds == Idx("build_and_push_docker_image")

\* C18: the image builder is invoked once, by prepare_pipeline_deployment,
\* which records the digest it returns on the deployment; it is not invoked
\* again by prepare_or_run_pipeline; and launch_instance is given exactly
\* that digest as image_name.
C18_ImageBuiltOnceAndLaunched ==
    /\ Builds \subseteq {1}
    /\ Builds = {} => deployment.extra = None /\ trace = <<>>
    /\ Builds # {} => deployment.extra = trace[1].arg
    /\ (validation.ok /\ pc # "Validated") => Builds = {1}
    /\ \A l \in Idx("launch_instance") :
         /\ Builds = {1}
         /\ l > 1
         /\ trace[l].arg = trace[1].arg

\* the instance was launched with the second digest
C18_Witness ==
    /\ vm = RUNNING
    /\ \E l \in Idx("launch_instance") : trace[l].arg = "repo@sha256:2"

\* C19: in a notebook prepare_or_run_pipeline raises RuntimeError before
\* anything else: no schedule warning or other line is logged, and neither
\* launch_instance, get_logs_url, get_instance nor stream_logs is called.
C19_NotebookFailsFirst ==
    in_notebook = "True" =>
        /\ pc = "Failed"
        /\ failure = <<"RuntimeError", "notebook">>
        /\ \A i \in 1..Len(trace) : trace[i].op = "build_and_push_docker_image"
        /\ vm = None

\* a deployment with a schedule, run in a notebook
C19_Witness == in_notebook = "True" /\ deployment.schedule

\* ------------------------------------------------------------------------
\* The lineage graph (checked under SpecLineage)
\* ------------------------------------------------------------------------
\* what the first k steps given to the graph add to nodes and to edges
RECURSIVE NodesOf(_)
NodesOf(k) == IF k = 0 THEN 0 ELSE NodesOf(k - 1) + 1 + Len(steps[k].outputs)
RECURSIVE EdgesOf(_)
EdgesOf(k) ==
    IF k = 0 THEN 0
    ELSE EdgesOf(k - 1) + Len(steps[k].outputs) + Len(steps[k].inputs)

\* the k-th step given to the graph has its step node, then one artifact
\* node per output, and one edge per output, then one edge per input
StepIsInGraph(k) ==
    LET step == steps[k]
        step_id == STEP_PREFIX \o str(step.id)
        n == NodesOf(k - 1)
        e == EdgesOf(k - 1)
        outs == Len(step.outputs)
    IN  /\ nodes[n + 1].class = "StepNode"
        /\ nodes[n + 1].id = step_id
        /\ \A i \in 1..outs :
             /\ nodes[n + 1 + i].class = "ArtifactNode"
             /\ nodes[n + 1 + i].id = ARTIFACT_PREFIX \o str(step.outputs[i].id)
             /\ edges[e + i].source = step_id
             /\ edges[e + i].target = ARTIFACT_PREFIX \o str(step.outputs[i].id)
        /\ \A i \in 1..Len(step.inputs) :
             /\ edges[e + outs + i].source
                    = ARTIFACT_PREFIX \o str(step.inputs[i].id)
             /\ edges[e + outs + i].target = step_id

GraphOfSteps ==
    /\ root_step_id = (IF steps = <<>> THEN None
                       ELSE STEP_PREFIX \o str(steps[1].id))
    /\ Len(nodes) = NodesOf(Len(steps))
    /\ Len(edges) = EdgesOf(Len(steps))
    /\ \A k \in 1..Len(steps) : StepIsInGraph(k)

\* a call leaves what the graph holds where it is, and the root once set
AppendOnly ==
    /\ Len(nodes) <= Len(nodes') /\ SubSeq(nodes', 1, Len(nodes)) = nodes
    /\ Len(edges) <= Len(edges') /\ SubSeq(edges', 1, Len(edges)) = edges
    /\ root_step_id # None => root_step_id' = root_step_id

\* C20: on a graph that starts with root_step_id unset, root_step_id is
\* 'step_' + id of the first step given and does not change afterwards; every
\* call only appends to nodes and edges, adding one step node, one artifact
\* node and one step-to-artifact edge per output, and one artifact-to-step
\* edge per input.
C20_RootFirstStepAppendOnly == [](GraphOfSteps) /\ [][AppendOnly]_vars

\* two steps of different ids given, the second with an output and an input
C20_Witness ==
    /\ Len(steps) = 2
    /\ steps[1].id # steps[2].id
    /\ steps[2].outputs # <<>>
    /\ steps[2].inputs # <<>>
    /\ Len(steps[1].outputs) = 2

====
